---- MODULE Spec2Model ----
(***************************************************************************)
(* Model of the shopping-list core of tking40/shopping_list:                *)
(*   src/main/units.py          unit enums, conversion tables, Quantity     *)
(*   src/main/ingredient.py     Ingredient                                  *)
(*   src/main/shopping_list.py  ShoppingList                                *)
(*                                                                          *)
(* Strings that the code transforms (unit labels, through str.upper /       *)
(* str.lower) are sequences of one-character strings.  Amounts are exact    *)
(* rationals [n, d] in lowest terms; the decimal literals of the tables     *)
(* are the rationals they are written as.  Python dicts are sequences of    *)
(* [key, val] entries in insertion order.  Dict objects that the code       *)
(* shares between ShoppingList objects live in a heap and are referred to   *)
(* by index.                                                                *)
(***************************************************************************)
EXTENDS Integers, Sequences, FiniteSets, TLC

VARIABLES lists, heap, log, ret, nops, inp, db

vars == <<lists, heap, log, ret, nops, inp, db>>

(***************************************************************************)
(* Bounds                                                                   *)
(***************************************************************************)
MaxOps == 3
MaxLists == 2

(***************************************************************************)
(* Float arithmetic, modelled exactly                                       *)
(***************************************************************************)
Abs(x) == IF x < 0 THEN -x ELSE x

RECURSIVE GCD(_, _)
GCD(a, b) == IF b = 0 THEN a ELSE GCD(b, a % b)

LCM(a, b) == (a \div GCD(a, b)) * b

Rat(n, d) == LET g == GCD(Abs(n), d) IN [n |-> n \div g, d |-> d \div g]

RAdd(x, y) ==
    LET l == LCM(x.d, y.d)
    IN  Rat(x.n * (l \div x.d) + y.n * (l \div y.d), l)

RNeg(x) == [n |-> -x.n, d |-> x.d]

RSub(x, y) == RAdd(x, RNeg(y))

RMul(x, y) ==
    LET g1 == GCD(Abs(x.n), y.d)
        g2 == GCD(Abs(y.n), x.d)
    IN  Rat((x.n \div g1) * (y.n \div g2), (x.d \div g2) * (y.d \div g1))

(***************************************************************************)
(* str.upper and str.lower                                                  *)
(***************************************************************************)
LowerChars ==
    <<"a", "b", "c", "d", "e", "f", "g", "h", "i", "j", "k", "l", "m",
      "n", "o", "p", "q", "r", "s", "t", "u", "v", "w", "x", "y", "z">>

UpperChars ==
    <<"A", "B", "C", "D", "E", "F", "G", "H", "I", "J", "K", "L", "M",
      "N", "O", "P", "Q", "R", "S", "T", "U", "V", "W", "X", "Y", "Z">>

Letters == {LowerChars[k] : k \in 1..Len(LowerChars)}
               \cup {UpperChars[k] : k \in 1..Len(UpperChars)}

\* the letter at the same position of the other alphabet; other letters map to
\* themselves
MapLetters(from, to) ==
    [c \in Letters |->
        IF \E k \in 1..Len(from) : from[k] = c
        THEN to[CHOOSE k \in 1..Len(from) : from[k] = c]
        ELSE c]

UpperMap == MapLetters(LowerChars, UpperChars)

LowerMap == MapLetters(UpperChars, LowerChars)

\* the string as it is
Upper_same(s) == s

\* characters that are not letters are left as they are
Upper(s) == [i \in 1..Len(s) |-> IF s[i] \in Letters THEN UpperMap[s[i]] ELSE s[i]]

Lower(s) == [i \in 1..Len(s) |-> IF s[i] \in Letters THEN LowerMap[s[i]] ELSE s[i]]

(***************************************************************************)
(* The unit enums: member names in declaration order, value = index - 1    *)
(***************************************************************************)
CountUnit == << <<"I", "T", "E", "M">> >>

VolumeUnit ==
    << <<"C", "U", "P">>,
       <<"T", "A", "B", "L", "E", "S", "P", "O", "O", "N">>,
       <<"T", "E", "A", "S", "P", "O", "O", "N">>,
       <<"O", "U", "N", "C", "E">> >>

MassUnit ==
    << <<"P", "O", "U", "N", "D">>,
       <<"O", "U", "N", "C", "E">>,
       <<"G", "R", "A", "M">>,
       <<"M", "I", "L", "L", "I", "G", "R", "A", "M">>,
       <<"K", "I", "L", "O", "G", "R", "A", "M">> >>

Members(cls) ==
    CASE cls = "VolumeUnit" -> VolumeUnit
      [] cls = "MassUnit" -> MassUnit
      [] cls = "CountUnit" -> CountUnit

\* An enum member is its class and its value; members of different classes
\* are never equal, whatever their names and values.
Member(cls, value) == [cls |-> cls, value |-> value]

UnitsOf(cls) == {Member(cls, i - 1) : i \in 1..Len(Members(cls))}

AllUnits == UnitsOf("CountUnit") \cup UnitsOf("VolumeUnit") \cup UnitsOf("MassUnit")

UnitName(u) == Members(u.cls)[u.value + 1]

\* enum_cls[key]: the member of that name, or KeyError
EnumHas(cls, key) == \E i \in 1..Len(Members(cls)) : Members(cls)[i] = key

EnumGet(cls, key) ==
    Member(cls, (CHOOSE i \in 1..Len(Members(cls)) : Members(cls)[i] = key) - 1)

(***************************************************************************)
(* Conversion tables, table[from.value][to.value]                           *)
(***************************************************************************)
VOLUME_TABLE ==
    << <<Rat(1, 1), Rat(16, 1), Rat(48, 1), Rat(8, 1)>>,
       <<Rat(1, 16), Rat(1, 1), Rat(3, 1), Rat(1, 2)>>,
       <<Rat(1, 48), Rat(1, 3), Rat(1, 1), Rat(1, 6)>>,
       <<Rat(1, 8), Rat(2, 1), Rat(6, 1), Rat(1, 1)>> >>

MASS_TABLE ==
    << <<Rat(1, 1), Rat(16, 1), Rat(453592, 1000), Rat(453592, 1),
         Rat(453592, 1000000)>>,
       <<Rat(1, 16), Rat(1, 1), Rat(283495, 10000), Rat(283495, 10),
         Rat(283495, 10000000)>>,
       <<Rat(1000, 453592), Rat(10000, 283495), Rat(1, 1), Rat(1000, 1),
         Rat(1, 1000)>>,
       <<Rat(1, 453592), Rat(10, 283495), Rat(1, 1000), Rat(1, 1),
         Rat(1, 1000000)>>,
       <<Rat(220462, 100000), Rat(35274, 1000), Rat(1000, 1), Rat(1000000, 1),
         Rat(1, 1)>> >>

\* Results of calls: err is "none" or the exception raised; val is the value
\* returned (a placeholder of the same shape when the call raised).
Ok(v) == [err |-> "none", val |-> v]

Raise(e, placeholder) == [err |-> e, val |-> placeholder]

NoAmount == Rat(0, 1)

convert_count(from_unit, to_unit, amount) ==
    IF from_unit = to_unit THEN Ok(amount)
    ELSE IF from_unit = Member("CountUnit", 0) /\ to_unit = Member("CountUnit", 0)
         THEN Ok(amount)
         ELSE Raise("ValueError", NoAmount)

convert_volume(from_unit, to_unit, amount) ==
    IF from_unit = to_unit THEN Ok(amount)
    ELSE Ok(RMul(amount, VOLUME_TABLE[from_unit.value + 1][to_unit.value + 1]))

convert_mass(from_unit, to_unit, amount) ==
    IF from_unit = to_unit THEN Ok(amount)
    ELSE Ok(RMul(amount, MASS_TABLE[from_unit.value + 1][to_unit.value + 1]))

convert_unit_coerce(from_unit, to_unit, amount) ==
    IF from_unit = to_unit THEN Ok(amount)
    ELSE IF from_unit.cls # to_unit.cls THEN Ok(amount)
    ELSE IF from_unit.cls = "VolumeUnit" THEN convert_volume(from_unit, to_unit, amount)
    ELSE IF from_unit.cls = "MassUnit" THEN convert_mass(from_unit, to_unit, amount)
    ELSE convert_count(from_unit, to_unit, amount)

\* isinstance(from_unit, type(to_unit)) is equality of the two enum classes
convert_unit(from_unit, to_unit, amount) ==
    IF from_unit = to_unit THEN Ok(amount)
    ELSE IF from_unit.cls # to_unit.cls THEN Raise("ValueError", NoAmount)
    ELSE IF from_unit.cls = "VolumeUnit" THEN convert_volume(from_unit, to_unit, amount)
    ELSE IF from_unit.cls = "MassUnit" THEN convert_mass(from_unit, to_unit, amount)
    ELSE IF from_unit.cls = "CountUnit" THEN convert_count(from_unit, to_unit, amount)
    ELSE Raise("ValueError", NoAmount)

(***************************************************************************)
(* Quantity                                                                 *)
(***************************************************************************)
Quantity(unit, amount) == [unit |-> unit, amount |-> amount]

NoQuantity == Quantity(Member("CountUnit", 0), NoAmount)

\* Quantity(unit, amount) of an amount computed by a call that may have raised
Quantity_of(unit, amount) ==
    IF amount.err # "none"
    THEN Raise(amount.err, NoQuantity)
    ELSE Ok(Quantity(unit, amount.val))

\* the target quantity itself, whatever from_quantity holds
Quantity_convert_target(from_quantity, to_quantity) ==
    IF from_quantity.unit.cls # to_quantity.unit.cls
    THEN Raise("ValueError", NoQuantity)
    ELSE Ok(to_quantity)

Quantity_convert(from_quantity, to_quantity) ==
    IF from_quantity.unit.cls # to_quantity.unit.cls
    THEN Raise("ValueError", NoQuantity)
    ELSE Quantity_of(to_quantity.unit,
                     convert_unit(from_quantity.unit, to_quantity.unit,
                                  from_quantity.amount))

\* other taken as it is, whatever its unit
converted_never(self, other) == Ok(other)

\* converted_other of __add__ and __sub__
converted(self, other) ==
    IF self.unit # other.unit THEN Quantity_convert(other, self) ELSE Ok(other)

Quantity_plus(self, converted_other) ==
    IF converted_other.err # "none"
    THEN Raise(converted_other.err, NoQuantity)
    ELSE Ok(Quantity(self.unit, RAdd(self.amount, converted_other.val.amount)))

Quantity_minus(self, converted_other) ==
    IF converted_other.err # "none"
    THEN Raise(converted_other.err, NoQuantity)
    ELSE Ok(Quantity(self.unit, RSub(self.amount, converted_other.val.amount)))

Quantity_add(self, other) ==
    IF self.unit.cls # other.unit.cls
    THEN Raise("ValueError", NoQuantity)
    ELSE Quantity_plus(self, converted(self, other))

Quantity_sub(self, other) ==
    IF self.unit.cls # other.unit.cls
    THEN Raise("ValueError", NoQuantity)
    ELSE Quantity_minus(self, converted(self, other))

\* equality of the amounts after conversion to the unit of self
Quantity_eq_converting(self, other) ==
    IF self.unit.cls # other.unit.cls THEN FALSE
    ELSE self.amount = Quantity_convert(other, self).val.amount

Quantity_eq(self, other) ==
    IF self.unit.cls # other.unit.cls THEN FALSE
    ELSE IF self.unit = other.unit THEN self.amount = other.amount
    ELSE FALSE

Quantity_to_dict(self) == [unit |-> Lower(UnitName(self.unit)), amount |-> self.amount]

\* the order in which from_args tries the enum classes
EnumOrder == <<"VolumeUnit", "MassUnit", "CountUnit">>

\* the positions in EnumOrder of the classes that have a member named key
Hits(key) == {i \in 1..Len(EnumOrder) : EnumHas(EnumOrder[i], key)}

LastOf(hits) == CHOOSE i \in hits : \A j \in hits : i >= j

FirstOf(hits) == CHOOSE i \in hits : \A j \in hits : i <= j

Quantity_from_args_default(unit_str, amount) ==
    IF Hits(Upper(unit_str)) = {}
    THEN Ok(Quantity(Member("CountUnit", 0), amount))
    ELSE Ok(Quantity(EnumGet(EnumOrder[FirstOf(Hits(Upper(unit_str)))], Upper(unit_str)),
                     amount))

Quantity_from_args(unit_str, amount) ==
    IF Hits(Upper(unit_str)) = {}
    THEN Raise("ValueError", NoQuantity)
    ELSE Ok(Quantity(EnumGet(EnumOrder[FirstOf(Hits(Upper(unit_str)))], Upper(unit_str)),
                     amount))

Quantity_from_dict(d) == Quantity_from_args(Upper(d.unit), d.amount)

Quantity_copy(self) == Quantity(self.unit, self.amount)

(***************************************************************************)
(* Ingredient                                                               *)
(***************************************************************************)
Ingredient(name, quantity) == [name |-> name, quantity |-> quantity]

NoIngredient == Ingredient("", NoQuantity)

\* Ingredient(name, quantity) of a quantity computed by a call that may have raised
Ingredient_of(name, quantity) ==
    IF quantity.err # "none"
    THEN Raise(quantity.err, NoIngredient)
    ELSE Ok(Ingredient(name, quantity.val))

\* the addition without the comparison of the names
Ingredient_add_unchecked(self, other) ==
    Ingredient_of(self.name, Quantity_add(self.quantity, other.quantity))

Ingredient_add_swapped(self, other) ==
    IF self.name # other.name
    THEN Raise("AssertionError", NoIngredient)
    ELSE Ingredient_of(self.name, Quantity_add(other.quantity, self.quantity))

Ingredient_add(self, other) ==
    IF self.name # other.name
    THEN Raise("AssertionError", NoIngredient)
    ELSE Ingredient_of(self.name, Quantity_add(self.quantity, other.quantity))

\* dataclass equality: the fields compared in order, quantity by Quantity.__eq__
Ingredient_eq(self, other) ==
    self.name = other.name /\ Quantity_eq(self.quantity, other.quantity)

Ingredient_to_dict(self, flatten) ==
    IF flatten
    THEN [name |-> self.name,
          unit |-> Quantity_to_dict(self.quantity).unit,
          amount |-> Quantity_to_dict(self.quantity).amount]
    ELSE [name |-> self.name, quantity |-> Quantity_to_dict(self.quantity)]

Ingredient_from_dict(d) == Ingredient_of(d.name, Quantity_from_dict(d.quantity))

Ingredient_from_args(name, units, amount) ==
    Ingredient_of(name, Quantity_from_args(units, amount))

Ingredient_copy(self) == Ingredient(self.name, Quantity_copy(self.quantity))

(***************************************************************************)
(* Python dicts: sequences of [key, val] entries in insertion order         *)
(***************************************************************************)
DictHas(d, k) == \E i \in 1..Len(d) : d[i].key = k

DictGet(d, k) == d[CHOOSE i \in 1..Len(d) : d[i].key = k].val

DictSet_front(d, k, v) ==
    IF DictHas(d, k)
    THEN [i \in 1..Len(d) |-> IF d[i].key = k THEN [key |-> k, val |-> v] ELSE d[i]]
    ELSE <<[key |-> k, val |-> v]>> \o d

\* d[k] = v: an existing key keeps its position, a new key goes last
DictSet(d, k, v) ==
    IF DictHas(d, k)
    THEN [i \in 1..Len(d) |-> IF d[i].key = k THEN [key |-> k, val |-> v] ELSE d[i]]
    ELSE Append(d, [key |-> k, val |-> v])

\* d.pop(k, None)
DictPop(d, k) == SelectSeq(d, LAMBDA e : e.key # k)

DictKeys(d) == {d[i].key : i \in 1..Len(d)}

DictValues(d) == [i \in 1..Len(d) |-> d[i].val]

\* Optional values: None, or a value that is present
None == [present |-> FALSE, ing |-> NoIngredient]

Some(ing) == [present |-> TRUE, ing |-> ing]

(***************************************************************************)
(* ShoppingList.  A ShoppingList object is its recipe_ingredients dict:     *)
(* recipe name -> reference to a bucket dict in the heap; a bucket dict is  *)
(* ingredient name -> Ingredient.                                           *)
(***************************************************************************)
RECURSIVE all_ingredients(_, _)
all_ingredients(hp, recipe_ingredients) ==
    IF recipe_ingredients = <<>> THEN <<>>
    ELSE DictValues(hp[Head(recipe_ingredients).val])
             \o all_ingredients(hp, Tail(recipe_ingredients))

\* the loop of ingredients(): todo are the ingredients still to visit
RECURSIVE combine(_, _)

\* combined_ingredients[name] = the sum, unless the addition raised
combine_sum(rest, combined_ingredients, name, sum) ==
    IF sum.err # "none"
    THEN Raise(sum.err, <<>>)
    ELSE combine(rest, DictSet(combined_ingredients, name, sum.val))

combine_overwrite(rest, combined_ingredients, ingredient) ==
    combine(rest, DictSet(combined_ingredients, ingredient.name,
                          Ingredient_copy(ingredient)))

\* one iteration of the loop
combine_step(rest, combined_ingredients, ingredient) ==
    IF DictHas(combined_ingredients, ingredient.name)
    THEN combine_sum(rest, combined_ingredients, ingredient.name,
                     Ingredient_add(DictGet(combined_ingredients, ingredient.name),
                                    ingredient))
    ELSE combine(rest, DictSet(combined_ingredients, ingredient.name,
                               Ingredient_copy(ingredient)))

combine(todo, combined_ingredients) ==
    IF todo = <<>>
    THEN Ok(combined_ingredients)
    ELSE combine_step(Tail(todo), combined_ingredients, Head(todo))

ingredients(hp, recipe_ingredients) ==
    combine(all_ingredients(hp, recipe_ingredients), <<>>)

\* combined.get(ingredient_name), unless ingredients() raised
get_ingredient(all, ingredient_name) ==
    IF all.err # "none" THEN Raise(all.err, None)
    ELSE IF DictHas(all.val, ingredient_name)
         THEN Ok(Some(DictGet(all.val, ingredient_name)))
         ELSE Ok(None)

find_ingredient(hp, recipe_ingredients, ingredient_name) ==
    get_ingredient(ingredients(hp, recipe_ingredients), ingredient_name)

\* str(ingredient) is f"{self.quantity} {self.name}" and str(quantity) is
\* f"{self.amount} {self.unit.name.lower()}": the line is kept as its parts
Ingredient_str(ingredient) ==
    [amount |-> ingredient.quantity.amount,
     unit |-> Lower(UnitName(ingredient.quantity.unit)),
     name |-> ingredient.name]

\* the lines that "\n".join puts together, unless ingredients() raised
join_lines(all) ==
    IF all.err # "none" THEN Raise(all.err, <<>>)
    ELSE Ok([i \in 1..Len(all.val) |-> Ingredient_str(all.val[i].val)])

\* ShoppingList.__str__
ShoppingList_str(hp, recipe_ingredients) == join_lines(ingredients(hp, recipe_ingredients))

(***************************************************************************)
(* Object identity in the map that ingredients() returns.  An Ingredient    *)
(* object and its Quantity object are either created by the call (New) or   *)
(* the very objects of a bucket entry (Held).  Assigning to an attribute of *)
(* an object changes it wherever it is held.                                *)
(***************************************************************************)
New == [b |-> 0, name |-> ""]

Held(b, name) == [b |-> b, name |-> name]

\* Ingredient(self.name, self.quantity): a new Ingredient around the same Quantity
copy_objects_shallow(src) == [ing |-> New, qty |-> src]

\* Ingredient.copy of the object src: Ingredient(self.name, self.quantity.copy())
copy_objects(src) == [ing |-> New, qty |-> New]

\* self + other: Ingredient(self.name, self.quantity + other.quantity), and
\* Quantity.__add__ returns Quantity(self.unit, ...)
add_objects(self, other) == [ing |-> New, qty |-> New]

\* the bucket entries in the order of all_ingredients
RECURSIVE all_places(_, _)
all_places(hp, recipe_ingredients) ==
    IF recipe_ingredients = <<>> THEN <<>>
    ELSE [i \in 1..Len(hp[Head(recipe_ingredients).val]) |->
             Held(Head(recipe_ingredients).val, hp[Head(recipe_ingredients).val][i].key)]
             \o all_places(hp, Tail(recipe_ingredients))

\* the loop of ingredients(), followed for the objects it puts into the map
RECURSIVE combine_objects(_, _)
combine_objects(todo, combined_ingredients) ==
    IF todo = <<>>
    THEN combined_ingredients
    ELSE IF DictHas(combined_ingredients, Head(todo).name)
         THEN combine_objects(Tail(todo),
                  DictSet(combined_ingredients, Head(todo).name,
                          add_objects(DictGet(combined_ingredients, Head(todo).name),
                                      Head(todo))))
         ELSE combine_objects(Tail(todo),
                  DictSet(combined_ingredients, Head(todo).name,
                          copy_objects(Head(todo))))

ingredients_objects(hp, recipe_ingredients) ==
    combine_objects(all_places(hp, recipe_ingredients), <<>>)

\* obj.amount = amount, for the Quantity object obj
set_amount(hp, obj, amount) ==
    IF obj = New THEN hp
    ELSE [hp EXCEPT ![obj.b] =
             DictSet(@, obj.name,
                     Ingredient(obj.name,
                                Quantity(DictGet(@, obj.name).quantity.unit, amount)))]

\* obj.quantity = quantity, for the Ingredient object obj
set_quantity(hp, obj, quantity) ==
    IF obj = New THEN hp
    ELSE [hp EXCEPT ![obj.b] = DictSet(@, obj.name, Ingredient(obj.name, quantity))]

\* The ShoppingList objects ls and the heap hp after a call, and the exception
\* it raised, if any
Outcome(ls, hp, err) == [lists |-> ls, heap |-> hp, err |-> err]

\* an addition that raised is dropped: the entry stays as it was
store_sum_swallow(ls, hp, b, name, sum) ==
    IF sum.err # "none"
    THEN Outcome(ls, hp, "none")
    ELSE Outcome(ls, [hp EXCEPT ![b] = DictSet(@, name, sum.val)], "none")

\* bucket[name] = existing_ingredient + ingredient, unless the addition raised
store_sum(ls, hp, b, name, sum) ==
    IF sum.err # "none"
    THEN Outcome(ls, hp, sum.err)
    ELSE Outcome(ls, [hp EXCEPT ![b] = DictSet(@, name, sum.val)], "none")

\* a new entry stored under the first of the names, whatever its own name
add_to_bucket_one_key(ls, hp, b, ingredient) ==
    IF DictHas(hp[b], ingredient.name)
    THEN store_sum(ls, hp, b, ingredient.name,
                   Ingredient_add(DictGet(hp[b], ingredient.name), ingredient))
    ELSE Outcome(ls, [hp EXCEPT ![b] = DictSet(@, "apple", ingredient)], "none")

\* the add to bucket b, which exists
add_to_bucket(ls, hp, b, ingredient) ==
    IF DictHas(hp[b], ingredient.name)
    THEN store_sum(ls, hp, b, ingredient.name,
                   Ingredient_add(DictGet(hp[b], ingredient.name), ingredient))
    ELSE Outcome(ls, [hp EXCEPT ![b] = DictSet(@, ingredient.name, ingredient)], "none")

\* the bucket made before the label is looked at
add_parsed_bucket_first(ls, hp, l, recipe_name, ingredient) ==
    IF ~DictHas(ls[l], recipe_name)
    THEN IF ingredient.err # "none"
         THEN Outcome([ls EXCEPT ![l] = DictSet(@, recipe_name, Len(hp) + 1)],
                      Append(hp, <<>>), ingredient.err)
         ELSE add_to_bucket([ls EXCEPT ![l] = DictSet(@, recipe_name, Len(hp) + 1)],
                            Append(hp, <<>>), Len(hp) + 1, ingredient.val)
    ELSE IF ingredient.err # "none"
         THEN Outcome(ls, hp, ingredient.err)
         ELSE add_to_bucket(ls, hp, DictGet(ls[l], recipe_name), ingredient.val)

\* add_ingredient once Ingredient.from_args has returned or raised
add_parsed(ls, hp, l, recipe_name, ingredient) ==
    IF ingredient.err # "none"
    THEN Outcome(ls, hp, ingredient.err)
    ELSE IF ~DictHas(ls[l], recipe_name)
         THEN add_to_bucket([ls EXCEPT ![l] = DictSet(@, recipe_name, Len(hp) + 1)],
                            Append(hp, <<>>), Len(hp) + 1, ingredient.val)
         ELSE add_to_bucket(ls, hp, DictGet(ls[l], recipe_name), ingredient.val)

\* add_ingredient on list l
add_ingredient(ls, hp, l, name, units, amount, recipe_name) ==
    add_parsed(ls, hp, l, recipe_name, Ingredient_from_args(name, units, amount))

\* self.recipe_ingredients.setdefault(recipe_name, {}): a recipe that is
\* absent gets an empty bucket
get_bucket_setdefault(ls, hp, l, recipe_name) ==
    IF DictHas(ls[l], recipe_name)
    THEN Outcome(ls, hp, "none")
    ELSE Outcome([ls EXCEPT ![l] = DictSet(@, recipe_name, Len(hp) + 1)],
                 Append(hp, <<>>), "none")

\* self.recipe_ingredients.get(recipe_name, {}): the dict is read, and the
\* default is a dict that no list holds
get_bucket(ls, hp, l, recipe_name) == Outcome(ls, hp, "none")

\* ShoppingList(self.recipe_ingredients): every bucket
for_recipe_all(hp, recipe_ingredients, recipe_name) ==
    IF ~DictHas(recipe_ingredients, recipe_name)
    THEN Raise("ValueError", <<>>)
    ELSE IF hp[DictGet(recipe_ingredients, recipe_name)] = <<>>
         THEN Raise("ValueError", <<>>)
         ELSE Ok(recipe_ingredients)

\* for_recipe: the new ShoppingList object (it refers to the same bucket dict), or
\* ValueError
for_recipe(hp, recipe_ingredients, recipe_name) ==
    IF ~DictHas(recipe_ingredients, recipe_name)
    THEN Raise("ValueError", <<>>)
    ELSE IF hp[DictGet(recipe_ingredients, recipe_name)] = <<>>
         THEN Raise("ValueError", <<>>)
         ELSE Ok(<<[key |-> recipe_name, val |-> DictGet(recipe_ingredients, recipe_name)]>>)

\* recipe_ingredients.clear()
remove_recipe_clear(recipe_ingredients, recipe_name) == Ok(<<>>)

\* recipe_ingredients.pop(recipe_name) without a default: KeyError when absent
remove_recipe_strict(recipe_ingredients, recipe_name) ==
    IF DictHas(recipe_ingredients, recipe_name)
    THEN Ok(DictPop(recipe_ingredients, recipe_name))
    ELSE Raise("KeyError", recipe_ingredients)

\* recipe_ingredients.pop(recipe_name, None)
remove_recipe(recipe_ingredients, recipe_name) ==
    Ok(DictPop(recipe_ingredients, recipe_name))

(***************************************************************************)
(* Inputs                                                                   *)
(***************************************************************************)
Names == {"apple", "flour"}

Recipes == {"general", "r1"}

\* the recipe_name argument left out
Default == "<default>"

RecipeArgs == {Default, "r1"}

L_item == <<"i", "t", "e", "m">>
L_cup == <<"c", "u", "p">>
L_tablespoon == <<"t", "a", "b", "l", "e", "s", "p", "o", "o", "n">>
L_banana == <<"b", "a", "n", "a", "n", "a">>

\* the (units, amount) arguments that add_ingredient is called with
QuantityArgs ==
    {<<L_item, Rat(2, 1)>>, <<L_item, Rat(3, 1)>>, <<L_cup, Rat(2, 1)>>,
     <<L_tablespoon, Rat(3, 1)>>, <<L_banana, Rat(2, 1)>>}

NoInput == [kind |-> "none"]

ReadOps == {"find_ingredient", "ingredients", "mutate", "str"}

\* what the caller does to the map that ingredients() returned
Mutations == {"amount", "quantity", "del"}

(***************************************************************************)
(* State                                                                    *)
(*   lists  the ShoppingList objects; lists[1] is the one under test, the   *)
(*          others were returned by for_recipe                              *)
(*   heap   the bucket dicts                                                *)
(*   log    per bucket dict and ingredient name, what the add_ingredient    *)
(*          calls that succeeded on it added: the units, the unit of the    *)
(*          first call, the total of the amounts                            *)
(*   ret    the last call and its outcome                                   *)
(*   nops   number of state-changing calls made                             *)
(*   inp    arguments of the pure functions (UnitSpec)                      *)
(*   db     the rows of the embeddings table (EmbSpec)                      *)
(* A run is at most MaxOps state-changing calls and then one read: a read   *)
(* changes ret alone, so the calls left out after a read reach no other     *)
(* state.                                                                   *)
(***************************************************************************)
NoLog == [n \in Names |-> [units |-> {}, first |-> NoQuantity.unit, total |-> Rat(0, 1)]]

\* the record of a call that returned or raised r
Returned(op, r) == [op |-> op, err |-> r.err, val |-> r.val]

\* ShoppingList() and ShoppingList({"general": {}})
Init ==
    /\ \/ lists = << <<>> >> /\ heap = <<>> /\ log = <<>>
       \/ /\ lists = << <<[key |-> "general", val |-> 1]>> >>
          /\ heap = << <<>> >>
          /\ log = <<NoLog>>
    /\ ret = [op |-> "init"]
    /\ nops = 0
    /\ inp = NoInput
    /\ db = <<>>

Logged(lg, name, quantity) ==
    [lg EXCEPT ![name] =
        [units |-> @.units \cup {quantity.unit},
         first |-> IF @.units = {} THEN quantity.unit ELSE @.first,
         total |-> RAdd(@.total, quantity.amount)]]

\* the log after a call of add_ingredient with outcome r
LogAfter(r, l, name, units, amount, recipe_name) ==
    IF r.err # "none"
    THEN IF Len(r.heap) > Len(log) THEN Append(log, NoLog) ELSE log
    ELSE [(IF Len(r.heap) > Len(log) THEN Append(log, NoLog) ELSE log)
              EXCEPT ![DictGet(r.lists[l], recipe_name)] =
                  Logged(@, name, Quantity_from_args(units, amount).val)]

RecipeName(recipe_arg) == IF recipe_arg = Default THEN "general" ELSE recipe_arg

AddIngredient(l, name, units, amount, recipe_arg) ==
    /\ nops < MaxOps
    /\ ret.op \notin ReadOps
    /\ \E r \in {add_ingredient(lists, heap, l, name, units, amount,
                                RecipeName(recipe_arg))} :
           /\ lists' = r.lists
           /\ heap' = r.heap
           /\ log' = LogAfter(r, l, name, units, amount, RecipeName(recipe_arg))
           /\ ret' = [op |-> "add_ingredient", l |-> l, name |-> name, units |-> units,
                      amount |-> amount, recipe |-> RecipeName(recipe_arg),
                      err |-> r.err]
    /\ nops' = nops + 1
    /\ UNCHANGED <<inp, db>>

RemoveRecipe(l, recipe_name) ==
    /\ nops < MaxOps
    /\ ret.op \notin ReadOps
    /\ \E r \in {remove_recipe(lists[l], recipe_name)} :
           /\ lists' = IF r.err = "none" THEN [lists EXCEPT ![l] = r.val] ELSE lists
           /\ ret' = [op |-> "remove_recipe", l |-> l, recipe |-> recipe_name,
                      err |-> r.err]
    /\ nops' = nops + 1
    /\ UNCHANGED <<heap, log, inp, db>>

ForRecipe(l, recipe_name) ==
    /\ nops < MaxOps
    /\ ret.op \notin ReadOps
    /\ Len(lists) < MaxLists
    /\ \E g \in {get_bucket(lists, heap, l, recipe_name)} :
       \E r \in {for_recipe(g.heap, g.lists[l], recipe_name)} :
           /\ lists' = IF r.err = "none" THEN Append(g.lists, r.val) ELSE g.lists
           /\ heap' = g.heap
           /\ ret' = [op |-> "for_recipe", l |-> l, recipe |-> recipe_name,
                      err |-> r.err,
                      new |-> IF r.err = "none" THEN Len(lists) + 1 ELSE 0]
    /\ nops' = nops + 1
    /\ UNCHANGED <<log, inp, db>>

FindIngredient(l, ingredient_name) ==
    /\ ret.op \notin ReadOps
    /\ ret' = Returned("find_ingredient",
                       find_ingredient(heap, lists[l], ingredient_name))
                  @@ [l |-> l, name |-> ingredient_name]
    /\ UNCHANGED <<lists, heap, log, nops, inp, db>>

StrOf(l) ==
    /\ ret.op \notin ReadOps
    /\ ret' = Returned("str", ShoppingList_str(heap, lists[l])) @@ [l |-> l]
    /\ UNCHANGED <<lists, heap, log, nops, inp, db>>

Ingredients(l) ==
    /\ ret.op \notin ReadOps \/ ret.op = "mutate"
    /\ ret' = Returned("ingredients", ingredients(heap, lists[l]))
                  @@ [l |-> l, objects |-> ingredients_objects(heap, lists[l])]
    /\ UNCHANGED <<lists, heap, log, nops, inp, db>>

\* The caller changes the map returned by ingredients(), or an object in it:
\*   view[name].quantity.amount = 0, view[name].quantity = Quantity(ITEM, 0),
\*   del view[name]
MutateView(name, mutation) ==
    /\ ret.op = "ingredients"
    /\ ret.err = "none"
    /\ DictHas(ret.val, name)
    /\ heap' = CASE mutation = "amount" ->
                        set_amount(heap, DictGet(ret.objects, name).qty, Rat(0, 1))
                 [] mutation = "quantity" ->
                        set_quantity(heap, DictGet(ret.objects, name).ing, NoQuantity)
                 [] mutation = "del" -> heap
    /\ ret' = [op |-> "mutate", err |-> "none", l |-> ret.l, name |-> name,
               mutation |-> mutation, before |-> ret.val,
               val |-> CASE mutation = "amount" ->
                               DictSet(ret.val, name,
                                   Ingredient(name,
                                       Quantity(DictGet(ret.val, name).quantity.unit,
                                                Rat(0, 1))))
                         [] mutation = "quantity" ->
                               DictSet(ret.val, name, Ingredient(name, NoQuantity))
                         [] mutation = "del" -> DictPop(ret.val, name)]
    /\ UNCHANGED <<lists, log, nops, inp, db>>

Next ==
    \/ \E l \in 1..Len(lists), name \in Names, q \in QuantityArgs,
          recipe_arg \in RecipeArgs :
           AddIngredient(l, name, q[1], q[2], recipe_arg)
    \/ \E l \in 1..Len(lists), recipe_name \in Recipes : RemoveRecipe(l, recipe_name)
    \/ \E l \in 1..Len(lists), recipe_name \in Recipes : ForRecipe(l, recipe_name)
    \/ \E l \in 1..Len(lists), name \in Names : FindIngredient(l, name)
    \/ \E l \in 1..Len(lists) : Ingredients(l)
    \/ \E l \in 1..Len(lists) : StrOf(l)
    \/ \E name \in Names, mutation \in Mutations : MutateView(name, mutation)

Spec == Init /\ [][Next]_vars

(***************************************************************************)
(* The pure functions of units.py and ingredient.py, applied to arguments   *)
(* drawn in the initial state                                               *)
(***************************************************************************)
PureAmounts == {Rat(1, 1), Rat(2, 1), Rat(1, 2)}

PureQuantities == {Quantity(u, x) : u \in AllUnits, x \in PureAmounts}

\* a label with upper-case and lower-case letters in turn
Mixed(s) == [i \in 1..Len(s) |-> IF i % 2 = 1 THEN Upper(s)[i] ELSE Lower(s)[i]]

\* every member name in lower, in upper and in mixed case, and labels that name no
\* unit
PureLabels ==
    {Lower(UnitName(u)) : u \in AllUnits} \cup {UnitName(u) : u \in AllUnits}
        \cup {Mixed(UnitName(u)) : u \in AllUnits}
        \cup {L_banana, <<"c", "u", "p", "s">>, <<"l", "i", "t", "e", "r">>, <<>>}

\* the target quantity of a conversion to unit
Target(unit) == Quantity(unit, Rat(0, 1))

\* Two quantities of one kind and a target of that kind: every choice for count and
\* volume; for mass the target pound, and the two quantities either both in
\* pound, ounce, gram, milligram or both in gram, kilogram.
CommonInputs ==
    {[kind |-> "common", a |-> a, b |-> b, to |-> Target(c)] :
         a \in {q \in PureQuantities : q.unit.cls = "VolumeUnit"},
         b \in {q \in PureQuantities : q.unit.cls = "VolumeUnit"},
         c \in UnitsOf("VolumeUnit")}
        \cup {[kind |-> "common", a |-> a, b |-> b, to |-> Target(c)] :
                  a \in {q \in PureQuantities : q.unit.cls = "CountUnit"},
                  b \in {q \in PureQuantities : q.unit.cls = "CountUnit"},
                  c \in UnitsOf("CountUnit")}
        \cup {[kind |-> "common", a |-> a, b |-> b, to |-> Target(Member("MassUnit", 0))] :
                  a \in {q \in PureQuantities : q.unit.cls = "MassUnit" /\ q.unit.value <= 3},
                  b \in {q \in PureQuantities : q.unit.cls = "MassUnit" /\ q.unit.value <= 3}}
        \cup {[kind |-> "common", a |-> a, b |-> b, to |-> Target(Member("MassUnit", 0))] :
                  a \in {q \in PureQuantities : q.unit.cls = "MassUnit" /\ q.unit.value \in {2, 4}},
                  b \in {q \in PureQuantities : q.unit.cls = "MassUnit" /\ q.unit.value \in {2, 4}}}

\* names that differ in the case of a letter only
PureNames == {"apple", "Apple"}

(***************************************************************************)
(* recipe_parser.py: parse_ingredients.  A response of the LLM is the       *)
(* sequence of its lexical tokens: the code fence, free prose, whitespace,  *)
(* the JSON punctuation, a JSON scalar, and a "key": scalar member of an    *)
(* object.  A decoded JSON value is a record of its type and its content.   *)
(***************************************************************************)
JNumber(n) == [json |-> "number", n |-> n, s |-> "", items |-> <<>>]

JString(str) == [json |-> "string", n |-> 0, s |-> str, items |-> <<>>]

JNull == [json |-> "null", n |-> 0, s |-> "", items |-> <<>>]

JArray(items) == [json |-> "array", n |-> 0, s |-> "", items |-> items]

\* members: the sequence of [key, val] in the order of the document
JObject(members) == [json |-> "object", n |-> 0, s |-> "", items |-> members]

Tok(t) == [t |-> t, key |-> "", v |-> JNull]

Scalar(v) == [t |-> "scalar", key |-> "", v |-> v]

MemberTok(key, v) == [t |-> "member", key |-> key, v |-> v]

\* str.strip() and the whitespace json.loads skips
NoWs(toks) == SelectSeq(toks, LAMBDA k : k.t # "ws")

Positions(toks, t) == {i \in 1..Len(toks) : toks[i].t = t}

Least(S) == CHOOSE i \in S : \A j \in S : i <= j

\* re.search(r"```(?:json)?\s*([\s\S]*?)```"): the first fence that has a
\* fence after it, and the nearest such fence
fence_match(toks) ==
    IF Cardinality(Positions(toks, "fence")) < 2
    THEN [found |-> FALSE, group |-> <<>>]
    ELSE [found |-> TRUE,
          group |-> SubSeq(toks, Least(Positions(toks, "fence")) + 1,
                           Least(Positions(toks, "fence")
                                     \ {Least(Positions(toks, "fence"))}) - 1)]

\* the "]" after position i
ClosersAfter(toks, i) == {j \in Positions(toks, "]") : j > i}

\* the "[" that have a "]" after them
Openers(toks) == {i \in Positions(toks, "[") : ClosersAfter(toks, i) # {}}

\* re.search(r"\[[\s\S]*?\]"): from the first "[" to the nearest "]"
array_match(toks) ==
    IF Openers(toks) = {}
    THEN [found |-> FALSE, group |-> <<>>]
    ELSE [found |-> TRUE,
          group |-> SubSeq(toks, Least(Openers(toks)),
                           Least(ClosersAfter(toks, Least(Openers(toks)))))]

\* the text handed to json.loads
json_str(toks) ==
    IF fence_match(toks).found THEN fence_match(toks).group
    ELSE IF array_match(toks).found THEN array_match(toks).group
    ELSE toks

Parsed(val, next) == [ok |-> TRUE, val |-> val, next |-> next]

Fail == [ok |-> FALSE, val |-> JNull, next |-> 0]

\* an object from position i, right after "{" or after a ","
RECURSIVE parse_members(_, _, _)
parse_members(t, i, acc) ==
    IF i > Len(t) THEN Fail
    ELSE IF t[i].t = "}" /\ acc = <<>> THEN Parsed(JObject(acc), i + 1)
    ELSE IF t[i].t # "member" \/ i + 1 > Len(t) THEN Fail
    ELSE IF t[i + 1].t = "}"
         THEN Parsed(JObject(Append(acc, [key |-> t[i].key, val |-> t[i].v])), i + 2)
    ELSE IF t[i + 1].t = ","
         THEN parse_members(t, i + 2, Append(acc, [key |-> t[i].key, val |-> t[i].v]))
    ELSE Fail

RECURSIVE parse_value(_, _)
RECURSIVE parse_items(_, _, _)
\* the array continued after the element r
parse_more(t, r, acc) ==
    IF ~r.ok \/ r.next > Len(t) THEN Fail
    ELSE IF t[r.next].t = "]" THEN Parsed(JArray(Append(acc, r.val)), r.next + 1)
    ELSE IF t[r.next].t = "," THEN parse_items(t, r.next + 1, Append(acc, r.val))
    ELSE Fail

\* an array from position i, right after "[" or after a ","
parse_items(t, i, acc) ==
    IF i > Len(t) THEN Fail
    ELSE IF t[i].t = "]" /\ acc = <<>> THEN Parsed(JArray(<<>>), i + 1)
    ELSE parse_more(t, parse_value(t, i), acc)

\* the JSON value that starts at position i
parse_value(t, i) ==
    IF i > Len(t) THEN Fail
    ELSE IF t[i].t = "scalar" THEN Parsed(t[i].v, i + 1)
    ELSE IF t[i].t = "[" THEN parse_items(t, i + 1, <<>>)
    ELSE IF t[i].t = "{" THEN parse_members(t, i + 1, <<>>)
    ELSE Fail

\* json.loads: the whole text is one value, or JSONDecodeError
json_loads(toks) ==
    IF parse_value(NoWs(toks), 1).ok
       /\ parse_value(NoWs(toks), 1).next = Len(NoWs(toks)) + 1
    THEN Ok(parse_value(NoWs(toks), 1).val)
    ELSE Raise("JSONDecodeError", JNull)

\* float(str): the numerals among the strings of the responses
float_of_str(str) == IF str = "2" THEN Ok(2) ELSE Raise("ValueError", 0)

\* float(x)
float(x) ==
    IF x.json = "number" THEN Ok(x.n)
    ELSE IF x.json = "string" THEN float_of_str(x.s)
    ELSE Raise("TypeError", 0)

\* ingredient[key]: the last member of that key of a dict; a list, a str, a
\* number and None have no str subscript
subscript(ingredient, key) ==
    IF ingredient.json # "object" THEN Raise("TypeError", JNull)
    ELSE IF \A i \in 1..Len(ingredient.items) : ingredient.items[i].key # key
    THEN Raise("KeyError", JNull)
    ELSE Ok(ingredient.items[CHOOSE i \in 1..Len(ingredient.items) :
                /\ ingredient.items[i].key = key
                /\ \A j \in (i + 1)..Len(ingredient.items) :
                       ingredient.items[j].key # key].val)

NoParsed == [amount |-> 0, unit |-> JNull, name |-> JNull]

\* ParsedIngredient(amount=float(ingredient["amount"]), unit=..., name=...),
\* its arguments evaluated in that order
ParsedIngredient(ingredient) ==
    IF subscript(ingredient, "amount").err # "none"
    THEN Raise(subscript(ingredient, "amount").err, NoParsed)
    ELSE IF float(subscript(ingredient, "amount").val).err # "none"
    THEN Raise(float(subscript(ingredient, "amount").val).err, NoParsed)
    ELSE IF subscript(ingredient, "unit").err # "none"
    THEN Raise(subscript(ingredient, "unit").err, NoParsed)
    ELSE IF subscript(ingredient, "name").err # "none"
    THEN Raise(subscript(ingredient, "name").err, NoParsed)
    ELSE Ok([amount |-> float(subscript(ingredient, "amount").val).val,
             unit |-> subscript(ingredient, "unit").val,
             name |-> subscript(ingredient, "name").val])

\* for ingredient in parsed: the elements of a list, the keys of a dict, the
\* characters of a str (each one a str); a number and None are not iterable
iterate(parsed) ==
    IF parsed.json = "array" THEN Ok(parsed.items)
    ELSE IF parsed.json = "object"
    THEN Ok([i \in 1..Len(parsed.items) |-> JString(parsed.items[i].key)])
    ELSE IF parsed.json = "string"
    THEN Ok(IF parsed.s = "" THEN <<>> ELSE <<JString(parsed.s)>>)
    ELSE Raise("TypeError", <<>>)

\* the list comprehension: the first element that raises ends it
RECURSIVE comprehension(_, _)
comprehension(elements, acc) ==
    IF elements = <<>> THEN Ok(acc)
    ELSE IF ParsedIngredient(Head(elements)).err # "none"
    THEN Raise(ParsedIngredient(Head(elements)).err, <<>>)
    ELSE comprehension(Tail(elements), Append(acc, ParsedIngredient(Head(elements)).val))

\* the body of the try block
parse_body(text) ==
    IF json_loads(text).err # "none" THEN Raise(json_loads(text).err, <<>>)
    ELSE IF iterate(json_loads(text).val).err # "none"
    THEN Raise(iterate(json_loads(text).val).err, <<>>)
    ELSE comprehension(iterate(json_loads(text).val).val, <<>>)

\* except (json.JSONDecodeError, KeyError, ValueError): raise ValueError
Caught == {"JSONDecodeError", "KeyError", "ValueError"}

parse_ingredients(response_content) ==
    IF NoWs(json_str(response_content)) = <<>>
    THEN Raise("ValueError", <<>>)
    ELSE IF parse_body(json_str(response_content)).err \in Caught
    THEN Raise("ValueError", <<>>)
    ELSE parse_body(json_str(response_content))

\* the objects of the responses
Sugar(amount) ==
    <<Tok("{"), MemberTok("amount", amount), Tok(","), MemberTok("unit", JString("cups")),
      Tok(","), MemberTok("name", JString("sugar")), Tok("}")>>

NoUnit == <<Tok("{"), MemberTok("amount", JNumber(1)), Tok(","),
            MemberTok("name", JString("sugar")), Tok("}")>>

InArray(toks) == <<Tok("[")>> \o toks \o <<Tok("]")>>

Fenced(toks) ==
    <<Tok("prose"), Tok("ws"), Tok("fence")>> \o toks \o <<Tok("fence"), Tok("prose")>>

\* the responses: none, prose, well-formed ones bare, fenced and inside prose,
\* and malformed ones of each kind
Responses ==
    {<<>>,
     <<Tok("prose")>>,
     <<Tok("fence"), Tok("ws"), Tok("fence")>>,
     InArray(Sugar(JNumber(1))),
     InArray(Sugar(JString("2"))),
     InArray(Sugar(JNumber(1)) \o <<Tok(",")>> \o Sugar(JNumber(2))),
     Fenced(InArray(Sugar(JNumber(1)))),
     <<Tok("prose")>> \o InArray(Sugar(JNumber(1))) \o <<Tok("prose")>>,
     <<Tok("ws")>> \o InArray(<<>>),
     <<Tok("{"), Tok("}")>>,
     InArray(NoUnit),
     InArray(Sugar(JString("abc"))),
     InArray(Sugar(JNull)),
     InArray(Sugar(JNumber(1)) \o <<Tok(",")>> \o Sugar(JNull)),
     InArray(Sugar(JNumber(1)) \o <<Tok(",")>>),
     InArray(<<Scalar(JNumber(1)), Tok(","), Scalar(JNumber(2))>>),
     Sugar(JNumber(1)),
     <<Scalar(JNumber(1))>>,
     <<Scalar(JNull)>>,
     <<Scalar(JString("abc"))>>,
     InArray(InArray(<<Scalar(JNumber(1))>>)),
     Fenced(InArray(InArray(<<Scalar(JNumber(1))>>)))}

ResponseInputs == {[kind |-> "response", response |-> r] : r \in Responses}

ParseIngredients ==
    /\ inp.kind = "response"
    /\ ret' = Returned("parse_ingredients", parse_ingredients(inp.response))
    /\ UNCHANGED <<lists, heap, log, nops, inp, db>>


UnitInputs ==
    {[kind |-> "pair", a |-> a, b |-> b] : a \in PureQuantities, b \in PureQuantities}
        \cup {[kind |-> "ingredient", ing |-> Ingredient(n, q)] :
                  n \in Names, q \in PureQuantities}
        \cup {[kind |-> "label", name |-> n, unit_str |-> u, amount |-> x] :
                  n \in Names, u \in PureLabels, x \in PureAmounts}
        \cup CommonInputs
        \cup {[kind |-> "ingredients", x |-> Ingredient(n, a), y |-> Ingredient(m, b)] :
                  n \in PureNames, m \in PureNames,
                  a \in PureQuantities, b \in {q \in PureQuantities : q.amount = Rat(1, 1)}}
        \cup ResponseInputs

UnitInit ==
    /\ lists = << <<>> >>
    /\ heap = <<>>
    /\ log = <<>>
    /\ ret = [op |-> "init"]
    /\ nops = 0
    /\ inp \in UnitInputs
    /\ db = <<>>

QuantityAdd ==
    /\ inp.kind = "pair"
    /\ ret' = Returned("Quantity.__add__", Quantity_add(inp.a, inp.b))
    /\ UNCHANGED <<lists, heap, log, nops, inp, db>>

QuantitySub ==
    /\ inp.kind = "pair"
    /\ ret' = Returned("Quantity.__sub__", Quantity_sub(inp.a, inp.b))
    /\ UNCHANGED <<lists, heap, log, nops, inp, db>>

QuantityConvert ==
    /\ inp.kind = "pair"
    /\ ret' = Returned("Quantity.convert", Quantity_convert(inp.a, inp.b))
    /\ UNCHANGED <<lists, heap, log, nops, inp, db>>

QuantityEq ==
    /\ inp.kind = "pair"
    /\ ret' = Returned("Quantity.__eq__", Ok(Quantity_eq(inp.a, inp.b)))
    /\ UNCHANGED <<lists, heap, log, nops, inp, db>>

ConvertUnit ==
    /\ inp.kind = "pair"
    /\ ret' = Returned("convert_unit", convert_unit(inp.a.unit, inp.b.unit, inp.a.amount))
    /\ UNCHANGED <<lists, heap, log, nops, inp, db>>

\* Ingredient.from_dict(ing.to_dict(flatten=False))
RoundTrip ==
    /\ inp.kind = "ingredient"
    /\ ret' = Returned("round_trip",
                       Ingredient_from_dict(Ingredient_to_dict(inp.ing, FALSE)))
    /\ UNCHANGED <<lists, heap, log, nops, inp, db>>

QuantityToDict ==
    /\ inp.kind = "pair"
    /\ ret' = Returned("Quantity.to_dict", Ok(Quantity_to_dict(inp.a)))
    /\ UNCHANGED <<lists, heap, log, nops, inp, db>>

QuantityFromArgs ==
    /\ inp.kind = "label"
    /\ ret' = Returned("Quantity.from_args",
                       Quantity_from_args(inp.unit_str, inp.amount))
                  @@ [units |-> inp.unit_str]
    /\ UNCHANGED <<lists, heap, log, nops, inp, db>>

QuantityFromDict ==
    /\ inp.kind = "label"
    /\ ret' = Returned("Quantity.from_dict",
                       Quantity_from_dict([unit |-> inp.unit_str, amount |-> inp.amount]))
                  @@ [units |-> inp.unit_str]
    /\ UNCHANGED <<lists, heap, log, nops, inp, db>>

IngredientFromArgs ==
    /\ inp.kind = "label"
    /\ ret' = Returned("Ingredient.from_args",
                       Ingredient_from_args(inp.name, inp.unit_str, inp.amount))
                  @@ [units |-> inp.unit_str]
    /\ UNCHANGED <<lists, heap, log, nops, inp, db>>

IngredientAdd ==
    /\ inp.kind = "ingredients"
    /\ ret' = Returned("Ingredient.__add__", Ingredient_add(inp.x, inp.y))
    /\ UNCHANGED <<lists, heap, log, nops, inp, db>>

\* Quantity.convert(x, to) of a quantity computed by a call that may have raised
convert_result(x, to) ==
    IF x.err # "none" THEN Raise(x.err, NoQuantity) ELSE Quantity_convert(x.val, to)

\* a + b and b + a, and both converted to the unit of inp.to
Commute ==
    /\ inp.kind = "common"
    /\ ret' = [op |-> "commute",
               ab |-> Quantity_add(inp.a, inp.b),
               ba |-> Quantity_add(inp.b, inp.a),
               ab_to |-> convert_result(Quantity_add(inp.a, inp.b), inp.to),
               ba_to |-> convert_result(Quantity_add(inp.b, inp.a), inp.to)]
    /\ UNCHANGED <<lists, heap, log, nops, inp, db>>

\* ShoppingList()
NewList == Outcome(<< <<>> >>, <<>>, "none")

\* add_ingredient(name, label of q, amount of q, recipe_name) on the list o
add_to(o, name, q, recipe_name) ==
    add_ingredient(o.lists, o.heap, 1, name, UnitName(q.unit), q.amount, recipe_name)

\* the combined quantity of name in the list o, converted to the unit of to
combined_to(o, name, to) ==
    IF ingredients(o.heap, o.lists[1]).err # "none"
    THEN Raise(ingredients(o.heap, o.lists[1]).err, NoQuantity)
    ELSE Quantity_convert(DictGet(ingredients(o.heap, o.lists[1]).val, name).quantity, to)

\* the same two additions made to two lists, bucket r1 first in one, bucket
\* general first in the other, and the combined quantity of each list
BucketOrder ==
    /\ inp.kind = "common"
    /\ ret' = [op |-> "bucket_order",
               first |-> ingredients(
                   add_to(add_to(NewList, "apple", inp.a, "r1"), "apple", inp.b, "general").heap,
                   add_to(add_to(NewList, "apple", inp.a, "r1"), "apple", inp.b, "general").lists[1]),
               second |-> ingredients(
                   add_to(add_to(NewList, "apple", inp.b, "general"), "apple", inp.a, "r1").heap,
                   add_to(add_to(NewList, "apple", inp.b, "general"), "apple", inp.a, "r1").lists[1]),
               first_to |-> combined_to(
                   add_to(add_to(NewList, "apple", inp.a, "r1"), "apple", inp.b, "general"),
                   "apple", inp.to),
               second_to |-> combined_to(
                   add_to(add_to(NewList, "apple", inp.b, "general"), "apple", inp.a, "r1"),
                   "apple", inp.to)]
    /\ UNCHANGED <<lists, heap, log, nops, inp, db>>

UnitNext ==
    \/ QuantityAdd
    \/ QuantitySub
    \/ QuantityConvert
    \/ QuantityEq
    \/ ConvertUnit
    \/ RoundTrip
    \/ QuantityToDict
    \/ QuantityFromArgs
    \/ QuantityFromDict
    \/ IngredientFromArgs
    \/ IngredientAdd
    \/ Commute
    \/ ParseIngredients
    \/ BucketOrder

UnitSpec == UnitInit /\ [][UnitNext]_vars

(***************************************************************************)
(* The embeddings database: embeddings.py and embeddings_db_store.py.  The  *)
(* table embeddings(text UNIQUE, embedding) is a dict in the order of the   *)
(* row ids.  An argument is its type (a str or not) and its characters.  An *)
(* embedding is known by the text the model encoded.  The sqlite calls are  *)
(* taken to succeed: the handlers of the store that print an error and go   *)
(* on are not entered.                                                      *)
(***************************************************************************)
Str(s) == [isstr |-> TRUE, s |-> s]

NoneArg == [isstr |-> FALSE, s |-> <<>>]

Whitespace == {" ", "\t", "\n"}

RECURSIVE LStrip(_)
LStrip(s) == IF s # <<>> /\ Head(s) \in Whitespace THEN LStrip(Tail(s)) ELSE s

RECURSIVE RStrip(_)
RStrip(s) ==
    IF s # <<>> /\ s[Len(s)] \in Whitespace THEN RStrip(SubSeq(s, 1, Len(s) - 1)) ELSE s

\* str.strip
Strip(s) == RStrip(LStrip(s))

\* text.strip().lower()
normalize(s) == Lower(Strip(s))

\* self.model.encode(text, convert_to_numpy=True)
encode(s) == [encoded |-> s]

NoEmbedding == [encoded |-> <<>>]

\* np.save into a BytesIO, and np.load of the blob
np_save(embedding) == [npy |-> embedding]

np_load(blob) == blob.npy

\* EmbeddingsDBStore.get_embedding: the embedding of the row, or None
get_embedding(rows, text) ==
    IF DictHas(rows, text)
    THEN [found |-> TRUE, embedding |-> np_load(DictGet(rows, text))]
    ELSE [found |-> FALSE, embedding |-> NoEmbedding]

\* INSERT OR REPLACE: a row of that text is deleted, the new row has a new id
add_embedding(rows, text, embedding) ==
    Append(DictPop(rows, text), [key |-> text, val |-> np_save(embedding)])

\* the DELETE counted as a removal whatever the table held
remove_row_any(rows, text) == [rows |-> DictPop(rows, text), val |-> TRUE]

\* DELETE FROM embeddings WHERE text = ?, and rowcount > 0
remove_row(rows, text) == [rows |-> DictPop(rows, text), val |-> DictHas(rows, text)]

\* the outcome of a call on the database: the exception, the value, the rows
Done(err, val, rows) == [err |-> err, val |-> val, db |-> rows]

\* the new embedding saved whatever auto_save says
save_new_always(rows, text, embedding, auto_save) ==
    Done("none", embedding, add_embedding(rows, text, embedding))

\* step 2 of generate_embedding, once the model has encoded the text
save_new(rows, text, embedding, auto_save) ==
    IF embedding = NoEmbedding
    THEN Done("RuntimeError", NoEmbedding, rows)
    ELSE IF auto_save
         THEN Done("none", embedding, add_embedding(rows, text, embedding))
         ELSE Done("none", embedding, rows)

\* whether the call has invoked the model
Encoded(r, called) == r @@ [encoded |-> called]

\* the text encoded without a look at the rows
generate_normalized_fresh(rows, text, auto_save) ==
    IF text = <<>>
    THEN Encoded(Done("ValueError", NoEmbedding, rows), FALSE)
    ELSE Encoded(save_new(rows, text, encode(text), auto_save), TRUE)

\* generate_embedding once the text is normalized
generate_normalized(rows, text, auto_save) ==
    IF text = <<>>
    THEN Encoded(Done("ValueError", NoEmbedding, rows), FALSE)
    ELSE IF get_embedding(rows, text).found
         THEN Encoded(Done("none", get_embedding(rows, text).embedding, rows), FALSE)
         ELSE Encoded(save_new(rows, text, encode(text), auto_save), TRUE)

generate_embedding(rows, text, auto_save) ==
    IF text.s = <<>> \/ ~text.isstr
    THEN Encoded(Done("ValueError", NoEmbedding, rows), FALSE)
    ELSE generate_normalized(rows, normalize(text.s), auto_save)

\* save_embedding_to_db: the row is stored under text as it was passed
save_embedding_to_db(rows, text) ==
    IF generate_embedding(rows, text, FALSE).err # "none"
    THEN Done("none", FALSE, rows)
    ELSE Done("none", TRUE,
              add_embedding(rows, text.s, generate_embedding(rows, text, FALSE).val))

\* save_embeddings_to_db: save_embedding_to_db of each text in turn, and the
\* number of them that returned True
RECURSIVE save_embeddings_to_db(_, _)
save_embeddings_to_db(rows, texts) ==
    IF texts = <<>>
    THEN Done("none", 0, rows)
    ELSE Done("none",
              save_embeddings_to_db(save_embedding_to_db(rows, Head(texts)).db,
                                    Tail(texts)).val
                  + (IF save_embedding_to_db(rows, Head(texts)).val THEN 1 ELSE 0),
              save_embeddings_to_db(save_embedding_to_db(rows, Head(texts)).db,
                                    Tail(texts)).db)

\* the loop over missing_items of find_similar_items: an item without a row
\* under the item as it was passed is encoded as it was passed, and with
\* auto_save it is stored under the item as it was passed
RECURSIVE add_missing(_, _, _, _)
add_missing(rows, found, items, auto_save) ==
    IF items = <<>>
    THEN rows
    ELSE IF DictHas(found, Head(items)) \/ ~auto_save
         THEN add_missing(rows, found, Tail(items), auto_save)
         ELSE add_missing(add_embedding(rows, Head(items), encode(Head(items))),
                          found, Tail(items), auto_save)

\* find_similar_items with the default top_k; the result is the items that
\* were ranked, the order by similarity is left out
find_similar_items(rows, query, items, auto_save) ==
    IF items = <<>>
    THEN Done("none", {}, rows)
    ELSE IF generate_embedding(rows, query, auto_save).err # "none"
         THEN Done(generate_embedding(rows, query, auto_save).err, {}, rows)
         ELSE Done("none", {items[i] : i \in 1..Len(items)},
                   add_missing(generate_embedding(rows, query, auto_save).db,
                               generate_embedding(rows, query, auto_save).db,
                               items, auto_save))

\* remove_embedding; None has no strip
remove_embedding(rows, text) ==
    IF ~text.isstr
    THEN Done("AttributeError", FALSE, rows)
    ELSE Done("none", remove_row(rows, normalize(text.s)).val,
              remove_row(rows, normalize(text.s)).rows)

\* EmbeddingsDBStore.remove_embeddings: one DELETE per text, in order, and
\* the number of them that deleted a row
RECURSIVE remove_rows(_, _)
remove_rows(rows, texts) ==
    IF texts = <<>>
    THEN [rows |-> rows, val |-> 0]
    ELSE [rows |-> remove_rows(remove_row(rows, Head(texts)).rows, Tail(texts)).rows,
          val |-> remove_rows(remove_row(rows, Head(texts)).rows, Tail(texts)).val
                  + (IF remove_row(rows, Head(texts)).val THEN 1 ELSE 0)]

\* remove_embeddings; the texts are normalized before the first DELETE
remove_embeddings(rows, texts) ==
    IF texts = <<>>
    THEN Done("none", 0, rows)
    ELSE IF \E i \in 1..Len(texts) : ~texts[i].isstr
         THEN Done("AttributeError", 0, rows)
         ELSE Done("none", remove_rows(rows, [i \in 1..Len(texts) |-> normalize(texts[i].s)]).val,
                   remove_rows(rows, [i \in 1..Len(texts) |-> normalize(texts[i].s)]).rows)

TextArgs ==
    {Str(<<"a">>), Str(<<" ", "A", "\n">>), Str(<<"B">>), Str(<<" ", "\t">>), Str(<<>>),
     NoneArg}

\* the database file as an earlier run left it: without rows, or with a row
\* whose embedding that run stored
EarlierDbs == {<<>>, <<[key |-> <<"a">>, val |-> np_save([encoded |-> <<"a", "?">>])]>>}

\* lists of texts: none, one, or two (one text twice in two spellings, two
\* texts, a text and None)
TextLists ==
    {<<>>} \cup {<<t>> : t \in TextArgs}
        \cup {<<Str(<<"a">>), Str(<<" ", "A", "\n">>)>>,
              <<Str(<<" ", "A", "\n">>), Str(<<"B">>)>>,
              <<Str(<<"B">>), NoneArg>>}

\* the items that a query is compared with
ItemLists == {<<>>, << <<"a">> >>, << <<"B">> >>, << <<" ", "A", "\n">>, <<"B">> >>}

EmbInit ==
    /\ lists = << <<>> >>
    /\ heap = <<>>
    /\ log = <<>>
    /\ ret = [op |-> "init"]
    /\ nops = 0
    /\ inp = [kind |-> "embeddings"]
    /\ db \in EarlierDbs

GenerateEmbedding(text, auto_save) ==
    /\ inp.kind = "embeddings"
    /\ nops < MaxOps
    /\ \E r \in {generate_embedding(db, text, auto_save)} :
           /\ db' = r.db
           /\ ret' = [op |-> "generate_embedding", text |-> text,
                      auto_save |-> auto_save, err |-> r.err, val |-> r.val,
                      encoded |-> r.encoded]
    /\ nops' = nops + 1
    /\ UNCHANGED <<lists, heap, log, inp>>

SaveEmbeddingToDb(text) ==
    /\ inp.kind = "embeddings"
    /\ nops < MaxOps
    /\ \E r \in {save_embedding_to_db(db, text)} :
           /\ db' = r.db
           /\ ret' = [op |-> "save_embedding_to_db", text |-> text, err |-> r.err,
                      val |-> r.val]
    /\ nops' = nops + 1
    /\ UNCHANGED <<lists, heap, log, inp>>

RemoveEmbedding(text) ==
    /\ inp.kind = "embeddings"
    /\ nops < MaxOps
    /\ \E r \in {remove_embedding(db, text)} :
           /\ db' = r.db
           /\ ret' = [op |-> "remove_embedding", text |-> text, err |-> r.err,
                      val |-> r.val]
    /\ nops' = nops + 1
    /\ UNCHANGED <<lists, heap, log, inp>>

RemoveEmbeddings(texts) ==
    /\ inp.kind = "embeddings"
    /\ nops < MaxOps
    /\ \E r \in {remove_embeddings(db, texts)} :
           /\ db' = r.db
           /\ ret' = [op |-> "remove_embeddings", texts |-> texts, err |-> r.err,
                      val |-> r.val]
    /\ nops' = nops + 1
    /\ UNCHANGED <<lists, heap, log, inp>>

SaveEmbeddingsToDb(texts) ==
    /\ inp.kind = "embeddings"
    /\ nops < MaxOps
    /\ \E r \in {save_embeddings_to_db(db, texts)} :
           /\ db' = r.db
           /\ ret' = [op |-> "save_embeddings_to_db", texts |-> texts, err |-> r.err,
                      val |-> r.val]
    /\ nops' = nops + 1
    /\ UNCHANGED <<lists, heap, log, inp>>

FindSimilarItems(query, items, auto_save) ==
    /\ inp.kind = "embeddings"
    /\ nops < MaxOps
    /\ \E r \in {find_similar_items(db, query, items, auto_save)} :
           /\ db' = r.db
           /\ ret' = [op |-> "find_similar_items", text |-> query, items |-> items,
                      auto_save |-> auto_save, err |-> r.err, val |-> r.val]
    /\ nops' = nops + 1
    /\ UNCHANGED <<lists, heap, log, inp>>

EmbNext ==
    \/ \E text \in TextArgs, auto_save \in BOOLEAN : GenerateEmbedding(text, auto_save)
    \/ \E text \in TextArgs : SaveEmbeddingToDb(text)
    \/ \E text \in TextArgs : RemoveEmbedding(text)
    \/ \E texts \in TextLists : RemoveEmbeddings(texts)
    \/ \E texts \in TextLists : SaveEmbeddingsToDb(texts)
    \/ \E query \in TextArgs, items \in ItemLists, auto_save \in BOOLEAN :
           FindSimilarItems(query, items, auto_save)

EmbSpec == EmbInit /\ [][EmbNext]_vars

\* both: a ShoppingList under test, or arguments of the pure functions
FullInit == Init \/ UnitInit

ListRun == inp.kind = "none"

FullNext ==
    \/ \E l \in 1..Len(lists), name \in Names, q \in QuantityArgs,
          recipe_arg \in RecipeArgs :
           ListRun /\ AddIngredient(l, name, q[1], q[2], recipe_arg)
    \/ \E l \in 1..Len(lists), recipe_name \in Recipes :
           ListRun /\ RemoveRecipe(l, recipe_name)
    \/ \E l \in 1..Len(lists), recipe_name \in Recipes :
           ListRun /\ ForRecipe(l, recipe_name)
    \/ \E l \in 1..Len(lists), name \in Names : ListRun /\ FindIngredient(l, name)
    \/ \E l \in 1..Len(lists) : ListRun /\ Ingredients(l)
    \/ \E l \in 1..Len(lists) : ListRun /\ StrOf(l)
    \/ \E name \in Names, mutation \in Mutations :
           ListRun /\ MutateView(name, mutation)
    \/ UnitNext

FullSpec == FullInit /\ [][FullNext]_vars

(***************************************************************************)
(* Properties                                                               *)
(***************************************************************************)
\* the bucket dicts that a ShoppingList object refers to
RefsOf(recipe_ingredients) ==
    {recipe_ingredients[i].val : i \in 1..Len(recipe_ingredients)}

\* those of them that hold an ingredient of that name
HoldersOf(recipe_ingredients, name) ==
    {b \in RefsOf(recipe_ingredients) : DictHas(heap[b], name)}

Min(S) == CHOOSE x \in S : \A y \in S : x <= y

\* the units in which name was added to the buckets B, and the total added
UnitsAdded(B, name) == UNION {log[b][name].units : b \in B}

RECURSIVE TotalAdded(_, _)
TotalAdded(B, name) ==
    IF B = {} THEN Rat(0, 1)
    ELSE RAdd(log[Min(B)][name].total, TotalAdded(B \ {Min(B)}, name))

\* the amounts that the buckets B hold of name, each converted to unit, added up
RECURSIVE TotalHeld(_, _, _)
TotalHeld(B, name, unit) ==
    IF B = {} THEN Rat(0, 1)
    ELSE RAdd(convert_unit(DictGet(heap[Min(B)], name).quantity.unit, unit,
                           DictGet(heap[Min(B)], name).quantity.amount).val,
              TotalHeld(B \ {Min(B)}, name, unit))

\* the combined view of a ShoppingList as C6 describes it: the unit of the bucket
\* created first, the other buckets converted to it
AsAggregated(view, recipe_ingredients) ==
    \A n \in Names :
        IF HoldersOf(recipe_ingredients, n) = {}
        THEN ~DictHas(view, n)
        ELSE /\ DictHas(view, n)
             /\ DictGet(view, n) =
                    Ingredient(n,
                        Quantity(DictGet(heap[Min(HoldersOf(recipe_ingredients, n))],
                                         n).quantity.unit,
                                 TotalHeld(HoldersOf(recipe_ingredients, n), n,
                                     DictGet(heap[Min(HoldersOf(recipe_ingredients, n))],
                                             n).quantity.unit)))

\* C1: find_ingredient never raises; it returns the combined Ingredient when some
\* bucket of the list holds the name, and None otherwise.
C1_FindNeverRaises ==
    ret.op = "find_ingredient" =>
        /\ ret.err = "none"
        /\ ret.val.present <=> HoldersOf(lists[ret.l], ret.name) # {}

\* C2: when every name was added in one unit only, the combined amount of a name
\* is the sum of all the amounts added for it to the buckets of the list, in that
\* unit.
C2_SameUnitSum ==
    (/\ ret.op = "ingredients"
     /\ \A n \in Names : Cardinality(UnitsAdded(RefsOf(lists[ret.l]), n)) <= 1)
    => /\ ret.err = "none"
       /\ \A n \in Names :
              IF UnitsAdded(RefsOf(lists[ret.l]), n) = {}
              THEN ~DictHas(ret.val, n)
              ELSE /\ DictHas(ret.val, n)
                   /\ DictGet(ret.val, n).quantity.unit
                          \in UnitsAdded(RefsOf(lists[ret.l]), n)
                   /\ DictGet(ret.val, n).quantity.amount
                          = TotalAdded(RefsOf(lists[ret.l]), n)

\* apple: 2 item in r1, 3 item and 2 item in the default bucket, 7 item combined
C2_Witness ==
    /\ ret.op = "ingredients"
    /\ \A n \in Names : Cardinality(UnitsAdded(RefsOf(lists[ret.l]), n)) <= 1
    /\ Cardinality(HoldersOf(lists[ret.l], "apple")) = 2
    /\ DictHas(ret.val, "apple")
    /\ DictGet(ret.val, "apple").quantity = Quantity(Member("CountUnit", 0), Rat(7, 1))

\* C3: Ingredient.from_dict(ing.to_dict(flatten=False)) is equal to ing, for every
\* unit of every kind.
C3_RoundTrip ==
    ret.op = "round_trip" => ret.err = "none" /\ Ingredient_eq(ret.val, inp.ing)

\* C4: between units of different kinds, Quantity +, Quantity -, Quantity.convert
\* and convert_unit raise ValueError.
C4_KindRejection ==
    (/\ ret.op \in {"Quantity.__add__", "Quantity.__sub__", "Quantity.convert",
                    "convert_unit"}
     /\ inp.a.unit.cls # inp.b.unit.cls)
    => ret.err = "ValueError"

\* volume-ounce + mass-ounce
C4_Witness ==
    /\ ret.op = "Quantity.__add__"
    /\ inp.a.unit = Member("VolumeUnit", 3)
    /\ inp.b.unit = Member("MassUnit", 1)
    /\ ret.err = "ValueError"

\* C5: a bucket holds a name at most once; add_ingredient of a name that the bucket
\* holds replaces the entry by the sum, in the unit of the first add of that name
\* to that bucket, the amount being the old amount plus the new amount converted
\* to that unit; the same (name, unit, amount) added twice gives twice the amount.
C5_BucketSum ==
    [][(ret'.op = "add_ingredient" /\ ret'.err = "none") =>
          LET b == DictGet(lists'[ret'.l], ret'.recipe)
              added == Quantity_from_args(ret'.units, ret'.amount).val
          IN  /\ Cardinality(DictKeys(heap'[b])) = Len(heap'[b])
              /\ (DictHas(lists[ret'.l], ret'.recipe) /\ DictHas(heap[b], ret'.name)) =>
                     /\ Len(heap'[b]) = Len(heap[b])
                     /\ DictGet(heap'[b], ret'.name).name = ret'.name
                     /\ DictGet(heap'[b], ret'.name).quantity.unit
                            = log[b][ret'.name].first
                     /\ DictGet(heap'[b], ret'.name).quantity.amount
                            = RAdd(DictGet(heap[b], ret'.name).quantity.amount,
                                   convert_unit(added.unit, log[b][ret'.name].first,
                                                added.amount).val)
                     /\ DictGet(heap[b], ret'.name).quantity = added =>
                            DictGet(heap'[b], ret'.name).quantity
                                = Quantity(added.unit, RMul(Rat(2, 1), added.amount))
      ]_vars

\* tablespoons added to a bucket that holds the name in cups
C5_Witness ==
    /\ ret.op = "add_ingredient"
    /\ ret.err = "none"
    /\ ret.units = L_tablespoon
    /\ LET b == DictGet(lists[ret.l], ret.recipe)
       IN  /\ log[b][ret.name].first = Member("VolumeUnit", 0)
           /\ log[b][ret.name].units = {Member("VolumeUnit", 0), Member("VolumeUnit", 1)}
           /\ DictGet(heap[b], ret.name).quantity
                  = Quantity(Member("VolumeUnit", 0), Rat(35, 16))

\* C6: the combined view has, for each name, the unit held by the first bucket
\* holding the name, in the order in which the buckets of the list were created
\* (bucket dicts are numbered as they are created; a recipe that was removed and
\* added again has a new one), and the amount is the sum of the buckets' amounts,
\* each converted to that unit.
C6_FirstBucketUnit ==
    (ret.op = "ingredients" /\ ret.err = "none") => AsAggregated(ret.val, lists[ret.l])

\* flour: tablespoons in r1, then cups in a bucket "general" that was removed and
\* created again after r1
C6_Witness ==
    /\ ret.op = "ingredients"
    /\ ret.err = "none"
    /\ ret.l = 1
    /\ lists[1] = <<[key |-> "r1", val |-> 2], [key |-> "general", val |-> 3]>>
    /\ DictHas(heap[2], "flour")
    /\ DictHas(heap[3], "flour")
    /\ DictGet(heap[3], "flour").quantity.unit = Member("VolumeUnit", 0)
    /\ DictGet(ret.val, "flour").quantity.unit = Member("VolumeUnit", 1)

\* C7: remove_recipe(r) on a list that has bucket r deletes that bucket and nothing
\* else; the buckets' contents are unchanged, and the combined view afterwards is
\* the aggregation of the remaining buckets, without the names only r held.
C7_RemoveExactly ==
    [][(ret'.op = "remove_recipe" /\ DictHas(lists[ret'.l], ret'.recipe)) =>
          /\ ret'.err = "none"
          /\ heap' = heap
          /\ Len(lists') = Len(lists)
          /\ \A k \in 1..Len(lists) : k # ret'.l => lists'[k] = lists[k]
          /\ lists'[ret'.l] = SelectSeq(lists[ret'.l], LAMBDA e : e.key # ret'.recipe)
          /\ Len(lists'[ret'.l]) = Len(lists[ret'.l]) - 1
          /\ ingredients(heap', lists'[ret'.l]).err = "none" =>
                 AsAggregated(ingredients(heap', lists'[ret'.l]).val, lists'[ret'.l])
      ]_vars

\* r1, the only bucket with flour, removed from a list that keeps another bucket
C7_Witness ==
    /\ ret.op = "remove_recipe"
    /\ ret.recipe = "r1"
    /\ Len(lists) = 1
    /\ Len(lists[1]) = 1
    /\ HoldersOf(lists[1], "apple") # {}
    /\ HoldersOf(lists[1], "flour") = {}
    /\ \E b \in 1..Len(heap) : b \notin RefsOf(lists[1]) /\ DictHas(heap[b], "flour")
    /\ ~DictHas(ingredients(heap, lists[1]).val, "flour")

\* C8: remove_recipe(r) on a list without bucket r raises nothing and changes
\* nothing; removing r a second time changes nothing.
C8_RemoveAbsent ==
    [][ret'.op = "remove_recipe" =>
          /\ ret'.err = "none"
          /\ ~DictHas(lists[ret'.l], ret'.recipe) =>
                 lists' = lists /\ heap' = heap /\ log' = log
          /\ remove_recipe(lists'[ret'.l], ret'.recipe) = Ok(lists'[ret'.l])
      ]_vars

\* r1 removed from a list whose only bucket ever is "general"
C8_Witness ==
    /\ ret.op = "remove_recipe"
    /\ ret.recipe = "r1"
    /\ ret.err = "none"
    /\ Len(heap) = 1
    /\ lists = << <<[key |-> "general", val |-> 1]>> >>
    /\ heap[1] # <<>>

\* C9: for_recipe(r) raises ValueError exactly when bucket r is absent or empty;
\* otherwise the ShoppingList it returns has the single bucket r, and its
\* combined view is the ingredients of bucket r with their quantities there.
C9_ForRecipe ==
    ret.op = "for_recipe" =>
        IF ~DictHas(lists[ret.l], ret.recipe)
        THEN ret.err = "ValueError"
        ELSE IF heap[DictGet(lists[ret.l], ret.recipe)] = <<>>
             THEN ret.err = "ValueError"
             ELSE /\ ret.err = "none"
                  /\ Len(lists[ret.new]) = 1
                  /\ DictKeys(lists[ret.new]) = {ret.recipe}
                  /\ ingredients(heap, lists[ret.new])
                         = Ok(heap[DictGet(lists[ret.l], ret.recipe)])

\* for_recipe of one of two buckets, the other one holding another name
C9_Witness ==
    /\ ret.op = "for_recipe"
    /\ ret.err = "none"
    /\ Len(lists[ret.l]) = 2
    /\ \E n \in Names :
           /\ HoldersOf(lists[ret.l], n) # {}
           /\ ~DictHas(ingredients(heap, lists[ret.new]).val, n)

\* a label that is no member name of any unit enum, whatever the case
Unknown(unit_str) == \A u \in AllUnits : Upper(unit_str) # UnitName(u)

\* C10: Quantity.from_args, Quantity.from_dict, Ingredient.from_args and
\* add_ingredient raise ValueError for a unit label that names no unit.
C10_UnknownUnit ==
    (/\ ret.op \in {"Quantity.from_args", "Quantity.from_dict", "Ingredient.from_args",
                    "add_ingredient"}
     /\ Unknown(ret.units))
    => ret.err = "ValueError"

\* add_ingredient with the label "banana" on a list that holds ingredients
C10_Witness ==
    /\ ret.op = "add_ingredient"
    /\ ret.units = L_banana
    /\ Unknown(ret.units)
    /\ ret.err = "ValueError"
    /\ lists[1] # <<>>
    /\ heap[lists[1][1].val] # <<>>

\* C11: add_ingredient of a name that bucket r holds in a unit of another kind
\* raises the ValueError of Quantity.__add__; the lists and the buckets are left as
\* they were (no second entry, no change of the entry).
C11_KindConflict ==
    [][(/\ ret'.op = "add_ingredient"
        /\ ~Unknown(ret'.units)
        /\ DictHas(lists[ret'.l], ret'.recipe)
        /\ DictHas(heap[DictGet(lists[ret'.l], ret'.recipe)], ret'.name)
        /\ DictGet(heap[DictGet(lists[ret'.l], ret'.recipe)], ret'.name).quantity.unit.cls
               # Quantity_from_args(ret'.units, ret'.amount).val.unit.cls)
       => /\ ret'.err = "ValueError"
          /\ lists' = lists
          /\ heap' = heap
      ]_vars

\* items added to a bucket that holds the name in cups
C11_Witness ==
    /\ ret.op = "add_ingredient"
    /\ ret.err = "ValueError"
    /\ ret.units = L_item
    /\ DictHas(lists[ret.l], ret.recipe)
    /\ DictHas(heap[DictGet(lists[ret.l], ret.recipe)], ret.name)
    /\ DictGet(heap[DictGet(lists[ret.l], ret.recipe)], ret.name).quantity
           = Quantity(Member("VolumeUnit", 0), Rat(2, 1))

\* C12: a == b is true exactly when a and b have the same unit and the same
\* amount; quantities in different units are unequal, also when they denote the
\* same physical amount.
C12_Equality ==
    ret.op = "Quantity.__eq__" =>
        /\ ret.val <=> (inp.a.unit = inp.b.unit /\ inp.a.amount = inp.b.amount)
        /\ inp.a.unit # inp.b.unit => ~ret.val

\* 1 volume-ounce and 2 tablespoons: the same volume, unequal
C12_Witness ==
    /\ ret.op = "Quantity.__eq__"
    /\ inp.a = Quantity(Member("VolumeUnit", 3), Rat(1, 1))
    /\ inp.b = Quantity(Member("VolumeUnit", 1), Rat(2, 1))
    /\ Quantity_convert(inp.b, inp.a) = Ok(inp.a)
    /\ ~ret.val

\* the factor of the conversion tables from from_unit to to_unit, units of one kind
Factor(from_unit, to_unit) ==
    IF from_unit = to_unit THEN Rat(1, 1)
    ELSE IF from_unit.cls = "VolumeUnit"
         THEN VOLUME_TABLE[from_unit.value + 1][to_unit.value + 1]
         ELSE MASS_TABLE[from_unit.value + 1][to_unit.value + 1]

\* C13: for a and b of one kind, a + b and a - b have the unit of a and the amount
\* a.amount + f * b.amount, resp. a.amount - f * b.amount, f being the table
\* factor from the unit of b to the unit of a, and 1 when the units are equal.
C13_AddSub ==
    (/\ ret.op \in {"Quantity.__add__", "Quantity.__sub__"}
     /\ inp.a.unit.cls = inp.b.unit.cls)
    => /\ ret.err = "none"
       /\ ret.val.unit = inp.a.unit
       /\ ret.val.amount =
              IF ret.op = "Quantity.__add__"
              THEN RAdd(inp.a.amount, RMul(Factor(inp.b.unit, inp.a.unit), inp.b.amount))
              ELSE RSub(inp.a.amount, RMul(Factor(inp.b.unit, inp.a.unit), inp.b.amount))

\* 1 cup - 2 tablespoon = 7/8 cup
C13_Witness ==
    /\ ret.op = "Quantity.__sub__"
    /\ inp.a = Quantity(Member("VolumeUnit", 0), Rat(1, 1))
    /\ inp.b = Quantity(Member("VolumeUnit", 1), Rat(2, 1))
    /\ ret.val = Quantity(Member("VolumeUnit", 0), Rat(7, 8))

\* C14: ingredients() builds its map from the buckets as they are at the call: a
\* call after add_ingredient or remove_recipe gives the aggregation of the
\* buckets then held.  The map and the objects in it are new: changing them
\* changes no list and no bucket, and ingredients() called afterwards returns
\* what it returned before the change.
C14_LiveProjection ==
    [][/\ (ret'.op = "ingredients" /\ ret'.err = "none") =>
              /\ \A i \in 1..Len(ret'.objects) :
                     ret'.objects[i].val = [ing |-> New, qty |-> New]
              /\ ret.op \in {"add_ingredient", "remove_recipe"} =>
                     AsAggregated(ret'.val, lists[ret'.l])
       /\ ret'.op = "mutate" =>
              /\ heap' = heap
              /\ lists' = lists
              /\ ingredients(heap', lists'[ret'.l]) = Ok(ret'.before)
       /\ (ret.op = "mutate" /\ ret'.op = "ingredients" /\ ret'.l = ret.l) =>
              /\ ret'.err = "none"
              /\ ret'.val = ret.before
      ]_vars

\* the amount of a name that one bucket holds set to 0 in the returned map
C14_Witness ==
    /\ ret.op = "mutate"
    /\ ret.mutation = "amount"
    /\ Cardinality(HoldersOf(lists[ret.l], ret.name)) = 1
    /\ DictGet(ret.val, ret.name).quantity.amount = Rat(0, 1)
    /\ \A b \in HoldersOf(lists[ret.l], ret.name) :
           DictGet(heap[b], ret.name).quantity.amount = Rat(2, 1)
    /\ ingredients(heap, lists[ret.l]) = Ok(ret.before)

\* C15: Ingredient a + b raises AssertionError whenever the names differ, be it in
\* the case of one letter; with equal names it is a.quantity + b.quantity under
\* the name of a: the unit of a, and the error of the Quantity addition if the
\* kinds differ.
C15_IngredientAdd ==
    ret.op = "Ingredient.__add__" =>
        IF inp.x.name # inp.y.name
        THEN ret.err = "AssertionError"
        ELSE IF inp.x.quantity.unit.cls # inp.y.quantity.unit.cls
             THEN ret.err = "ValueError"
             ELSE /\ ret.err = "none"
                  /\ ret.val.name = inp.x.name
                  /\ ret.val.quantity.unit = inp.x.quantity.unit
                  /\ ret.val.quantity.amount =
                         RAdd(inp.x.quantity.amount,
                              RMul(Factor(inp.y.quantity.unit, inp.x.quantity.unit),
                                   inp.y.quantity.amount))

\* "apple" + "Apple", both in cups
C15_Witness ==
    /\ ret.op = "Ingredient.__add__"
    /\ inp.x.name = "apple"
    /\ inp.y.name = "Apple"
    /\ inp.x.quantity.unit = inp.y.quantity.unit
    /\ ret.err = "AssertionError"

\* the same letter, in whatever case
SameLetter(c, e) ==
    \E k \in 1..Len(LowerChars) :
        /\ c \in {LowerChars[k], UpperChars[k]}
        /\ e \in {LowerChars[k], UpperChars[k]}

\* v is n but for the case of its letters
CaseVariant(v, n) == Len(v) = Len(n) /\ \A i \in 1..Len(v) : SameLetter(v[i], n[i])

Names_label(cls, v) == \E u \in UnitsOf(cls) : CaseVariant(v, UnitName(u))

ParseOps == {"Quantity.from_args", "Quantity.from_dict", "Ingredient.from_args"}

\* the unit of the Quantity that a parsing call returned
ParsedUnit == IF ret.op = "Ingredient.from_args" THEN ret.val.quantity.unit ELSE ret.val.unit

\* C16: a label that names a member of more than one enum resolves to the member
\* of the first of VolumeUnit, MassUnit, CountUnit that has it: "ounce", in any
\* case, is always VolumeUnit.OUNCE.
C16_FirstKindWins ==
    (/\ ret.op \in ParseOps
     /\ \E cls \in {"VolumeUnit", "MassUnit", "CountUnit"} : Names_label(cls, ret.units))
    => /\ ret.err = "none"
       /\ CaseVariant(ret.units, UnitName(ParsedUnit))
       /\ ParsedUnit.cls =
              IF Names_label("VolumeUnit", ret.units) THEN "VolumeUnit"
              ELSE IF Names_label("MassUnit", ret.units) THEN "MassUnit"
              ELSE "CountUnit"
       /\ CaseVariant(ret.units, UnitName(Member("MassUnit", 1))) =>
              ParsedUnit = Member("VolumeUnit", 3)

\* from_dict of the label "ounce"
C16_Witness ==
    /\ ret.op = "Quantity.from_dict"
    /\ ret.units = Lower(UnitName(Member("MassUnit", 1)))
    /\ Names_label("VolumeUnit", ret.units)
    /\ Names_label("MassUnit", ret.units)
    /\ ret.val.unit = Member("VolumeUnit", 3)

\* C17: a label that is a member name but for the case of its letters gives the
\* unit that the member name itself gives, with the amount passed in; the unit
\* that to_dict writes is the member name in lower case.
C17_CaseInsensitive ==
    /\ ret.op \in ParseOps =>
           \A u \in AllUnits :
               CaseVariant(ret.units, UnitName(u)) =>
                   /\ ret.err = "none"
                   /\ ParsedUnit = Quantity_from_args(UnitName(u), inp.amount).val.unit
                   /\ ParsedUnit = Quantity_from_args(Lower(UnitName(u)), inp.amount).val.unit
                   /\ UnitName(ParsedUnit) = UnitName(u)
                   /\ ret.op # "Ingredient.from_args" => ret.val.amount = inp.amount
    /\ ret.op = "Quantity.to_dict" =>
           /\ CaseVariant(ret.val.unit, UnitName(inp.a.unit))
           /\ \A i \in 1..Len(ret.val.unit) :
                  \E k \in 1..Len(LowerChars) : ret.val.unit[i] = LowerChars[k]
           /\ ret.val.amount = inp.a.amount

\* from_args of the label "TaBlEsPoOn"
C17_Witness ==
    /\ ret.op = "Quantity.from_args"
    /\ ret.units = <<"T", "a", "B", "l", "E", "s", "P", "o", "O", "n">>
    /\ ret.val.unit = Member("VolumeUnit", 1)

\* C18: a Quantity converted to its own unit is equal to itself: the same unit and
\* the same amount, whatever the amount of the target quantity.
C18_ConvertIdentity ==
    /\ (ret.op = "Quantity.convert" /\ inp.a.unit = inp.b.unit) =>
           /\ ret.err = "none"
           /\ ret.val = inp.a
           /\ Quantity_eq(ret.val, inp.a)
    /\ (ret.op = "convert_unit" /\ inp.a.unit = inp.b.unit) =>
           /\ ret.err = "none"
           /\ ret.val = inp.a.amount

\* 1/2 kilogram converted to the unit of 2 kilogram
C18_Witness ==
    /\ ret.op = "Quantity.convert"
    /\ inp.a = Quantity(Member("MassUnit", 4), Rat(1, 2))
    /\ inp.b = Quantity(Member("MassUnit", 4), Rat(2, 1))
    /\ ret.val = inp.a

\* The tolerance of the comparisons of converted amounts in the tests:
\* assertAlmostEqual(x, y, places=5), that is round(x - y, 5) == 0.
Places == 5

RECURSIVE Pow10(_)
Pow10(k) == IF k = 0 THEN 1 ELSE 10 * Pow10(k - 1)

\* the first k decimals of r / d, for 0 <= r < d
RECURSIVE Decimals(_, _, _)
Decimals(r, d, k) ==
    IF k = 0 THEN 0
    ELSE ((r * 10) \div d) * Pow10(k - 1) + Decimals((r * 10) % d, d, k - 1)

\* x * 10^k without what follows the decimal point, for x >= 0
Scaled(x, k) == (x.n \div x.d) * Pow10(k) + Decimals(x.n % x.d, x.d, k)

\* x and y differ by at most half a unit of the last of Places decimals; the
\* amounts are cut one decimal further on, and a difference of 5 there is let
\* pass
AlmostEqual(x, y) == Abs(Scaled(x, Places + 1) - Scaled(y, Places + 1)) <= 5

\* C19: for a and b of one kind, a + b and b + a converted to a common unit are
\* equal within the tolerance, and a + b == b + a only if a and b have the same
\* unit.
C19_Commutes ==
    ret.op = "commute" =>
        /\ ret.ab_to.err = "none"
        /\ ret.ba_to.err = "none"
        /\ AlmostEqual(ret.ab_to.val.amount, ret.ba_to.val.amount)
        /\ Quantity_eq(ret.ab.val, ret.ba.val) => inp.a.unit = inp.b.unit

\* a key as text.strip().lower() leaves it: not empty, no whitespace at either end,
\* no upper-case letter
Normalized(k) ==
    /\ k # <<>>
    /\ k[1] \notin Whitespace
    /\ k[Len(k)] \notin Whitespace
    /\ \A i \in 1..Len(k) : \A j \in 1..Len(UpperChars) : k[i] # UpperChars[j]

\* the text of a call that returned, stripped of the whitespace around it
Inner(s) == SubSeq(s, (CHOOSE i \in 1..Len(s) : s[i] \notin Whitespace
                          /\ \A j \in 1..(i - 1) : s[j] \in Whitespace),
                   (CHOOSE i \in 1..Len(s) : s[i] \notin Whitespace
                          /\ \A j \in (i + 1)..Len(s) : s[j] \in Whitespace))

\* k is the text s stripped and in lower case
KeyOf(k, s) == Normalized(k) /\ CaseVariant(k, Inner(s))

HasText(s) == \E i \in 1..Len(s) : s[i] \notin Whitespace

\* the rows whose key is the text of the argument, stripped and in lower case
RowsOf(rows, text) ==
    IF text.isstr /\ HasText(text.s)
    THEN {i \in 1..Len(rows) : KeyOf(rows[i].key, text.s)}
    ELSE {}

Doomed(rows, texts) ==
    {i \in 1..Len(rows) : \E j \in 1..Len(texts) : i \in RowsOf(rows, texts[j])}

\* the rows without those at the positions in gone, in their order
Without(rows, gone) == SelectSeq(rows, LAMBDA r : \A i \in gone : rows[i] # r)

C23_ValueErrorOnly ==
    ret.op = "parse_ingredients" =>
        /\ ret.err \in {"none", "ValueError"}
        /\ ret.err = "none" => \A i \in 1..Len(ret.val) : ret.val[i].amount \in Int

\* C24: an add_ingredient that raises (the label is unknown, or the bucket
\* holds the name in a unit of another kind) leaves every list and every
\* bucket as it was: no bucket is made, no entry is added or changed, and the
\* recipe names of the list are the same.
C24_FailedAddNoChange ==
    [][(ret'.op = "add_ingredient" /\ ret'.err # "none") =>
          /\ lists' = lists
          /\ heap' = heap
          /\ DictKeys(lists'[ret'.l]) = DictKeys(lists[ret'.l])
      ]_vars

\* an unknown label added for a recipe that the list does not have
C24_Witness ==
    /\ ret.op = "add_ingredient"
    /\ ret.err # "none"
    /\ ret.units = L_banana
    /\ ~DictHas(lists[ret.l], ret.recipe)
    /\ lists[ret.l] # <<>>

\* the buckets of list k with what they hold
Contents(ls, hp, k) ==
    [i \in 1..Len(ls[k]) |-> [key |-> ls[k][i].key, val |-> hp[ls[k][i].val]]]

\* C25: the list that for_recipe returned and the list it was taken from are
\* independent: an add_ingredient or a remove_recipe on one of them leaves
\* the buckets of the other, and what they hold, as they were.
C25_ForRecipeIndependent ==
    [][ret'.op \in {"add_ingredient", "remove_recipe"} =>
          \A k \in 1..Len(lists) :
              k # ret'.l => Contents(lists', heap', k) = Contents(lists, heap, k)
      ]_vars

\* the units that Quantity.from_args returns for some label
ParseableUnits ==
    {Quantity_from_args(UnitName(w), Rat(1, 1)).val.unit : w \in AllUnits}

Parseable(unit) == unit \in ParseableUnits

\* no bucket of a list is empty, every entry is under the key of its name and
\* in a unit that parsing gives, and a for_recipe that has just been called
\* failed exactly when the list has no bucket of that recipe
Structure ==
    /\ \A l \in 1..Len(lists) : \A b \in RefsOf(lists[l]) :
           /\ heap[b] # <<>>
           /\ \A j \in 1..Len(heap[b]) :
                  /\ heap[b][j].key = heap[b][j].val.name
                  /\ Parseable(heap[b][j].val.quantity.unit)
    /\ IF ret.op = "for_recipe"
       THEN ret.err # "none" <=> ~DictHas(lists[ret.l], ret.recipe)
       ELSE TRUE

\* every bucket came from an add_ingredient: the constructor was given none
\* (a bucket without a logged addition is one handed to the constructor)
StartedEmpty == \A b \in 1..Len(log) : log[b] # NoLog

C27_BucketOrder ==
    ret.op = "bucket_order" =>
        /\ ret.first.err = ret.second.err
        /\ ret.first_to.err = ret.second_to.err
        /\ ret.first_to.val = ret.second_to.val

\* x * y = 1, for x and y in lowest terms and above 0
Inverse(x, y) == x.n = y.d /\ x.d = y.n

\* C28: for units a and b of one kind, the factor from a to b (what
\* convert_unit makes of the amount 1) times the factor from b to a is 1, and
\* the factor from a unit to itself is 1: in the volume table and in the mass
\* table, the row and the column of kilogram included.
C28_Reciprocal ==
    (ret.op = "convert_unit" /\ inp.a.unit.cls = inp.b.unit.cls) =>
        /\ convert_unit(inp.a.unit, inp.b.unit, Rat(1, 1)).err = "none"
        /\ convert_unit(inp.b.unit, inp.a.unit, Rat(1, 1)).err = "none"
        /\ Inverse(convert_unit(inp.a.unit, inp.b.unit, Rat(1, 1)).val,
                   convert_unit(inp.b.unit, inp.a.unit, Rat(1, 1)).val)
        /\ inp.a.unit = inp.b.unit =>
               convert_unit(inp.a.unit, inp.b.unit, Rat(1, 1)).val = Rat(1, 1)

ListReads == {"ingredients", "find_ingredient", "for_recipe", "str"}

Arithmetic == {"Quantity.__add__", "Quantity.__sub__", "Quantity.convert"}

\* the result r of a call is what the call returned
Same(r, returned) == r.err = returned.err /\ r.val = returned.val

Writers ==
    {"generate_embedding", "save_embedding_to_db", "save_embeddings_to_db",
     "find_similar_items"}

\* the rows of the table after the step that the table did not have before it
Written(before, after) ==
    {i \in 1..Len(after) : \A j \in 1..Len(before) : before[j] # after[i]}

\* C30: every key that generate_embedding(auto_save=True), save_embedding_to_db,
\* save_embeddings_to_db or find_similar_items(auto_save=True) writes is the
\* text stripped and in lower case, so the entry that save_embedding_to_db
\* has stored is found by generate_embedding of the same text and deleted by
\* remove_embedding of the same text.
C30_KeysNormalized ==
    [][ /\ ret'.op \in Writers =>
              \A i \in Written(db, db') : Normalized(db'[i].key)
        /\ (ret'.op = "save_embedding_to_db" /\ ret'.val = TRUE) =>
              /\ RowsOf(db', ret'.text) # {}
              /\ remove_embedding(db', ret'.text).val = TRUE
      ]_vars

====
